---- MODULE Spec2Model ----
(***************************************************************************)
(* Model of src/src/main.ts: the script that publishes one message through *)
(* the Wormhole core contract on Sepolia and then parses the message id    *)
(* out of the publishing transaction.                                      *)
(*                                                                         *)
(* main() is one sequential async function.  Every call into the SDK, into *)
(* ethers or into ./signMessage is an external call: it returns a value    *)
(* chosen by the environment or throws.  The model has one action per      *)
(* stretch of main() between two such calls, and the handlers (the three   *)
(* catch blocks and main().catch) are part of the action that throws.      *)
(* src/unnamed/part_000 is the same program with other comments.           *)
(***************************************************************************)
EXTENDS Integers, Sequences, FiniteSets

\* ------------------------------------------------------------------ bounds
\* Number of distinct transaction hashes the chain may hand back.
NumTxIds == 2
\* Longest list of TransactionId signSendWait returns in the model.
MaxTxs == 3
\* Number of distinct WormholeMessageId values parseTransaction may return.
NumMsgIds == 2
\* Longest list of WormholeMessageId parseTransaction returns in the model.
MaxMsgs == 2
\* Granularity of the clock while the propagation timer is pending.
TickMs == 2000

\* ------------------------------------------------------- program constants
\* setTimeout(resolve, 8000)
DelayMs == 8000

\* ------------------------------------------------------------------- state
VARIABLES
    pc,             \* position of main(): the next external call, or "exited"
    calls,          \* the external calls made so far, in order
    txIds,          \* what signSendWait returned: [defined, list]
    primaryTxid,    \* primaryTxIdObject.txid, 0 before it is assigned
    elapsed,        \* ms since setTimeout was armed
    parseArg,       \* the argument given to parseTransaction, 0 before the call
    messageIds,     \* what parseTransaction returned: [defined, list]
    wormholeMessageId, \* the message id printed by the success branch, 0 if none
    errLog,         \* which console.error branch ran, "none" if none
    error,          \* the call whose error was caught, "none" if none
    exitCode        \* the process exit code (0 unless process.exit(1) ran)

vars == <<pc, calls, txIds, primaryTxid, elapsed, parseArg, messageIds,
          wormholeMessageId, errLog, error, exitCode>>

TxIdValues == 1..NumTxIds
MsgIdValues == 1..NumMsgIds

RECURSIVE SeqsUpTo(_, _)
SeqsUpTo(S, n) ==
    IF n = 0 THEN {<<>>}
    ELSE LET shorter == SeqsUpTo(S, n - 1)
         IN  shorter \cup {Append(s, x) : s \in {t \in shorter : Len(t) = n - 1}, x \in S}

\* A value of type TransactionId[] as it reaches main(); "defined" is FALSE
\* for the null/undefined that `!txIds` guards against.
Undefined == [defined |-> FALSE, list |-> <<>>]
Defined(s) == [defined |-> TRUE, list |-> s]

TxIdsResults == {Undefined} \cup {Defined(s) : s \in SeqsUpTo(TxIdValues, MaxTxs)}
MessageIdsResults == {Undefined} \cup {Defined(s) : s \in SeqsUpTo(MsgIdValues, MaxMsgs)}

Init ==
    /\ pc = "wormhole"
    /\ calls = <<>>
    /\ txIds = Undefined
    /\ primaryTxid = 0
    /\ elapsed = 0
    /\ parseArg = 0
    /\ messageIds = Undefined
    /\ wormholeMessageId = 0
    /\ errLog = "none"
    /\ error = "none"
    /\ exitCode = 0

\* What the log of calls says.
Range(s) == {s[i] : i \in DOMAIN s}
Count(s, x) == Cardinality({i \in DOMAIN s : s[i] = x})
Called(x) == Count(calls, x) > 0
\* Every call of b comes after a call of a.
Precedes(a, b) ==
    \A j \in DOMAIN calls : calls[j] = b => \E i \in 1..(j - 1) : calls[i] = a
\* main() has returned or process.exit has run.
Exited == pc = "exited"

\* ---------------------------------------------------------------- handlers
Data == <<txIds, primaryTxid, elapsed, parseArg, messageIds, wormholeMessageId>>

\* main().catch: an error that escapes main() is logged and the process
\* exits with code 1.
OuterCatch(e) ==
    /\ errLog' = "outer"
    /\ error' = e
    /\ exitCode' = 1
    /\ pc' = "exited"

\* The first catch without its process.exit(1): main() goes on behind the try.
EthersSignerCatch_NoExit(e) ==
    /\ errLog' = "ethersSigner"
    /\ error' = e
    /\ exitCode' = exitCode
    /\ pc' = "getChain"

\* catch of the try around signEvmMessage: log, process.exit(1).
EthersSignerCatch(e) ==
    /\ errLog' = "ethersSigner"
    /\ error' = e
    /\ exitCode' = 1
    /\ pc' = "exited"

\* The second catch without its process.exit(1): main() goes on behind the try.
SdkSignerCatch_NoExit(e) ==
    /\ errLog' = "sdkSigner"
    /\ error' = e
    /\ exitCode' = exitCode
    /\ pc' = "encode"

\* catch of the try around getEvmSigner: log, process.exit(1).
SdkSignerCatch(e) ==
    /\ errLog' = "sdkSigner"
    /\ error' = e
    /\ exitCode' = 1
    /\ pc' = "exited"

\* catch of the try around publication and identifier retrieval: the error
\* and its stack are logged and main() returns; nothing sets the exit code,
\* so the process ends with the code it had.
InnerCatch(e) ==
    /\ errLog' = "inner"
    /\ error' = e
    /\ exitCode' = exitCode
    /\ pc' = "exited"

\* ----------------------------------------------------------------- actions
\* const wh = await wormhole(network, [EvmPlatformLoader])
WormholeInit ==
    /\ pc = "wormhole"
    /\ calls' = Append(calls, "wormhole")
    /\ \/ /\ pc' = "signEvmMessage"
          /\ UNCHANGED <<errLog, error, exitCode>>
       \/ OuterCatch("wormhole")
    /\ UNCHANGED Data

\* const signerResult = await signEvmMessage(), inside the first try.
SignEvmMessage ==
    /\ pc = "signEvmMessage"
    /\ calls' = Append(calls, "signEvmMessage")
    /\ \/ /\ pc' = "getAddress"
          /\ UNCHANGED <<errLog, error, exitCode>>
       \/ EthersSignerCatch("signEvmMessage")
    /\ UNCHANGED Data

\* await ethersJsSigner.getAddress(), still inside the first try.
GetAddress ==
    /\ pc = "getAddress"
    /\ calls' = Append(calls, "getAddress")
    /\ \/ /\ pc' = "getChain"
          /\ UNCHANGED <<errLog, error, exitCode>>
       \/ EthersSignerCatch("getAddress")
    /\ UNCHANGED Data

\* wh.getChain(sourceChainName): outside every try, so an error escapes main().
GetChain ==
    /\ pc = "getChain"
    /\ calls' = Append(calls, "getChain")
    /\ \/ /\ pc' = "getEvmSigner"
          /\ UNCHANGED <<errLog, error, exitCode>>
       \/ OuterCatch("getChain")
    /\ UNCHANGED Data

\* sdkSigner = await getEvmSigner(ethersJsProvider, ethersJsSigner), in the
\* second try.
GetEvmSigner ==
    /\ pc = "getEvmSigner"
    /\ calls' = Append(calls, "getEvmSigner")
    /\ \/ /\ pc' = "encode"
          /\ UNCHANGED <<errLog, error, exitCode>>
       \/ SdkSignerCatch("getEvmSigner")
    /\ UNCHANGED Data

\* The payload and the message parameters: encoding.bytes.encode(messageText),
\* the nonce and the consistency level.  Outside every try.
BuildPayload ==
    /\ pc = "encode"
    /\ calls' = Append(calls, "encode")
    /\ \/ /\ pc' = "getWormholeCore"
          /\ UNCHANGED <<errLog, error, exitCode>>
       \/ OuterCatch("encode")
    /\ UNCHANGED Data

\* await sourceChainContext.getWormholeCore(), first statement of the third try.
GetWormholeCore ==
    /\ pc = "getWormholeCore"
    /\ calls' = Append(calls, "getWormholeCore")
    /\ \/ /\ pc' = "publishMessage"
          /\ UNCHANGED <<errLog, error, exitCode>>
       \/ InnerCatch("getWormholeCore")
    /\ UNCHANGED Data

\* toNative(sdkSigner.chain(), sdkSigner.address()), then
\* coreProtocolClient.publishMessage(...), which hands back the generator of
\* unsigned transactions without running it.
PublishMessage ==
    /\ pc = "publishMessage"
    /\ \/ /\ calls' = calls \o <<"toNative", "publishMessage">>
          /\ pc' = "signSendWait"
          /\ UNCHANGED <<errLog, error, exitCode>>
       \/ /\ calls' = Append(calls, "toNative")
          /\ InnerCatch("toNative")
       \/ /\ calls' = calls \o <<"toNative", "publishMessage">>
          /\ InnerCatch("publishMessage")
    /\ UNCHANGED Data

\* if (!txIds || txIds.length === 0)
NoTxIds(r) == ~r.defined \/ Len(r.list) = 0

\* The first transaction id where the code takes the last.
PrimaryTxid_First(list) == list[1]

\* The index of the last element where the code takes the element's txid.
PrimaryTxid_Index(list) == Len(list) - 1

\* txIds[txIds.length - 1].txid
PrimaryTxid(list) == list[Len(list)]

\* The same stretch of main() with the check of the result left out: an empty
\* or missing result goes on to the timer with no primary transaction id.
SignSendWait_NoCheck ==
    /\ pc = "signSendWait"
    /\ \/ /\ calls' = Append(calls, "signSendWait")
          /\ InnerCatch("signSendWait")
          /\ UNCHANGED Data
       \/ \E r \in TxIdsResults :
            /\ txIds' = r
            /\ calls' = calls \o <<"signSendWait", "setTimeout">>
            /\ primaryTxid' = IF NoTxIds(r) THEN 0 ELSE PrimaryTxid(r.list)
            /\ elapsed' = 0
            /\ pc' = "setTimeout"
            /\ UNCHANGED <<errLog, error, exitCode>>
            /\ UNCHANGED <<parseArg, messageIds, wormholeMessageId>>

\* const txIds = await signSendWait(sourceChainContext, unsignedTxs, sdkSigner)
\* and, with no await in between, the check of the result, the choice of the
\* primary transaction id and the arming of the 8000 ms timer.
SignSendWait ==
    /\ pc = "signSendWait"
    /\ \/ /\ calls' = Append(calls, "signSendWait")
          /\ InnerCatch("signSendWait")
          /\ UNCHANGED Data
       \/ \E r \in TxIdsResults :
            /\ txIds' = r
            /\ IF NoTxIds(r)
               THEN /\ calls' = Append(calls, "signSendWait")
                    /\ InnerCatch("NoTxIds")
                    /\ UNCHANGED <<primaryTxid, elapsed>>
               ELSE /\ calls' = calls \o <<"signSendWait", "setTimeout">>
                    /\ primaryTxid' = PrimaryTxid(r.list)
                    /\ elapsed' = 0
                    /\ pc' = "setTimeout"
                    /\ UNCHANGED <<errLog, error, exitCode>>
            /\ UNCHANGED <<parseArg, messageIds, wormholeMessageId>>

\* Time passes while main() is suspended on the timer promise.
Tick ==
    /\ pc = "setTimeout"
    /\ elapsed < DelayMs
    /\ elapsed' = elapsed + TickMs
    /\ UNCHANGED <<pc, calls, txIds, primaryTxid, parseArg, messageIds,
                   wormholeMessageId, errLog, error, exitCode>>

\* main() going on without waiting for the timer, as when the promise is not
\* awaited.
TimerFires_Immediate ==
    /\ pc = "setTimeout"
    /\ pc' = "parseTransaction"
    /\ UNCHANGED <<calls, txIds, primaryTxid, elapsed, parseArg, messageIds,
                   wormholeMessageId, errLog, error, exitCode>>

\* A timer promise that is never resolved: main() stays suspended.
TimerFires_Never ==
    /\ pc = "setTimeout"
    /\ FALSE
    /\ UNCHANGED vars

\* The timer set by setTimeout(resolve, 8000) fires no earlier than 8000 ms
\* after it was armed; main() resumes behind the await.
TimerFires ==
    /\ pc = "setTimeout"
    /\ elapsed >= DelayMs
    /\ pc' = "parseTransaction"
    /\ UNCHANGED <<calls, txIds, primaryTxid, elapsed, parseArg, messageIds,
                   wormholeMessageId, errLog, error, exitCode>>

\* if (messageIds && messageIds.length > 0)
HasMessageIds(r) == r.defined /\ Len(r.list) > 0

\* const wormholeMessageId = messageIds[0]
FirstMessageId(list) == list[1]

\* An else branch that reports nothing.
NotParsedBranch_Silent ==
    /\ wormholeMessageId' = wormholeMessageId
    /\ UNCHANGED <<errLog, error, exitCode>>
    /\ pc' = "exited"

\* The else branch: console.error("Could not parse Wormhole Message IDs ..."),
\* after which main() returns.
NotParsedBranch ==
    /\ errLog' = "notParsed"
    /\ wormholeMessageId' = wormholeMessageId
    /\ UNCHANGED <<error, exitCode>>
    /\ pc' = "exited"

\* The then branch: the chain, emitter and sequence of messageIds[0] are
\* printed, after which main() returns.
ParsedBranch(r) ==
    /\ wormholeMessageId' = FirstMessageId(r.list)
    /\ UNCHANGED <<errLog, error, exitCode>>
    /\ pc' = "exited"

\* const messageIds = await sourceChainContext.parseTransaction(primaryTxid)
\* and the branch on its result.
ParseTransaction ==
    /\ pc = "parseTransaction"
    /\ calls' = Append(calls, "parseTransaction")
    /\ parseArg' = primaryTxid
    /\ \/ /\ InnerCatch("parseTransaction")
          /\ UNCHANGED <<messageIds, wormholeMessageId>>
       \/ \E r \in MessageIdsResults :
            /\ messageIds' = r
            /\ IF HasMessageIds(r) THEN ParsedBranch(r) ELSE NotParsedBranch
    /\ UNCHANGED <<txIds, primaryTxid, elapsed>>

Next ==
    \/ WormholeInit
    \/ SignEvmMessage
    \/ GetAddress
    \/ GetChain
    \/ GetEvmSigner
    \/ BuildPayload
    \/ GetWormholeCore
    \/ PublishMessage
    \/ SignSendWait
    \/ Tick
    \/ TimerFires
    \/ ParseTransaction

Spec == Init /\ [][Next]_vars

\* The run as the scheduler drives it: a pending call returns or throws, and
\* a pending timer fires.
FairSpec == Spec /\ WF_vars(Next)

\* ------------------------------------------------- workflow states of a run
\* The stage of the workflow main() is in, read off its position: a run that
\* logged an error is Failed; a run that returned without one has printed the
\* message id.
State ==
    IF errLog # "none" THEN "Failed"
    ELSE CASE pc \in {"wormhole", "signEvmMessage", "getAddress", "getChain",
                      "getEvmSigner"} -> "Start"
           [] pc = "encode" -> "SignerReady"
           [] pc \in {"getWormholeCore", "publishMessage"} -> "PayloadReady"
           [] pc = "signSendWait" -> "Published"
           [] pc \in {"setTimeout", "parseTransaction"} -> "Confirmed"
           [] pc = "exited" -> "IdentifierResolved"

\* The failure a Failed run reports, by the handler that logged it and the
\* call that threw.
FailureKind ==
    CASE errLog = "none" -> "none"
      [] errLog \in {"ethersSigner", "sdkSigner"} -> "SignerUnavailable"
      [] errLog = "inner" /\ error \in {"getWormholeCore", "toNative",
                    "publishMessage", "signSendWait", "NoTxIds"} -> "PublicationFailed"
      [] errLog = "inner" /\ error = "parseTransaction" -> "IdentifierNotFound"
      [] errLog = "notParsed" -> "IdentifierNotFound"
      [] errLog = "outer" -> "UnexpectedError"

\* The run failed in publication: publishMessage or signSendWait threw, or
\* signSendWait returned and its result was empty or missing.
PublicationFails ==
    \/ error \in {"publishMessage", "signSendWait"}
    \/ Called("signSendWait") /\ error # "signSendWait" /\ NoTxIds(txIds)

\* parseTransaction returned (it was called and did not throw).
ParseReturned == Called("parseTransaction") /\ error # "parseTransaction"

Terminal == {"IdentifierResolved", "Failed"}

Rank(s) ==
    CASE s = "Start" -> 0
      [] s = "SignerReady" -> 1
      [] s = "PayloadReady" -> 2
      [] s = "Published" -> 3
      [] s = "Confirmed" -> 4
      [] s = "IdentifierResolved" -> 5
      [] s = "Failed" -> 6

\* ------------------------------------------------------------------ claims

\* C1: the exit code of a finished run is 0 only if the run reached
\* IdentifierResolved, and is 1 for every failed run, whatever failed.
ExitCodeContract ==
    Exited => /\ (exitCode = 0 => State = "IdentifierResolved")
              /\ (State = "Failed" => exitCode = 1)

\* C2: when publication fails (signSendWait returns an empty or missing list,
\* or publishMessage/signSendWait throws) the run has ended in Failed with
\* PublicationFailed, and neither the timer was armed nor parseTransaction
\* called.
PublicationFailureSkipsResolver ==
    PublicationFails =>
        /\ Exited
        /\ State = "Failed"
        /\ FailureKind = "PublicationFailed"
        /\ ~Called("setTimeout")
        /\ ~Called("parseTransaction")
        /\ parseArg = 0

PublicationFailureWitness ==
    /\ Exited
    /\ Called("signSendWait")
    /\ txIds = Defined(<<>>)
    /\ error = "NoTxIds"

\* C3: whatever non-empty list of transaction ids signSendWait returned, the
\* primary transaction id, and the id handed to parseTransaction, is the last
\* element of that list.
CanonicalIsLast ==
    /\ pc \in {"setTimeout", "parseTransaction"} =>
          /\ Len(txIds.list) >= 1
          /\ primaryTxid = txIds.list[Len(txIds.list)]
    /\ Called("parseTransaction") =>
          /\ Len(txIds.list) >= 1
          /\ parseArg = txIds.list[Len(txIds.list)]

CanonicalIsLastWitness ==
    /\ Called("parseTransaction")
    /\ Len(txIds.list) = 2
    /\ txIds.list[1] # txIds.list[2]
    /\ parseArg = txIds.list[2]

\* C5: when parseTransaction returns no message ids, the run has ended in
\* Failed with IdentifierNotFound and has printed no message id.
ZeroIdsFails ==
    (ParseReturned /\ ~HasMessageIds(messageIds)) =>
        /\ Exited
        /\ State = "Failed"
        /\ FailureKind = "IdentifierNotFound"
        /\ errLog = "notParsed"
        /\ wormholeMessageId = 0

ZeroIdsWitness ==
    /\ ParseReturned
    /\ messageIds = Defined(<<>>)
    /\ Exited

\* C6: when signEvmMessage, getAddress or getEvmSigner fails, the process has
\* exited with code 1 and publishMessage, signSendWait and parseTransaction
\* were not called.
SignerFailureStopsRun ==
    error \in {"signEvmMessage", "getAddress", "getEvmSigner"} =>
        /\ Exited
        /\ exitCode = 1
        /\ ~Called("publishMessage")
        /\ ~Called("signSendWait")
        /\ ~Called("parseTransaction")

SignerFailureWitness ==
    /\ error = "getEvmSigner"
    /\ Exited
    /\ exitCode = 1

ParsedIdFromPublisher ==
    /\ Precedes("signSendWait", "parseTransaction")
    /\ parseArg # 0 => Called("parseTransaction")
    /\ Called("parseTransaction") =>
          /\ txIds.defined
          /\ parseArg \in Range(txIds.list)
    /\ wormholeMessageId # 0 =>
          /\ ParseReturned
          /\ wormholeMessageId \in Range(messageIds.list)

ParsedIdFromPublisherWitness ==
    /\ wormholeMessageId # 0
    /\ Len(txIds.list) = 3
    /\ parseArg \in Range(txIds.list)

\* C9: parseTransaction is called at most once, only after the timer was
\* armed behind signSendWait and its 8000 ms have passed, and the message id
\* printed is the first element of the list it returned.
SingleDelayedAttempt ==
    /\ Count(calls, "parseTransaction") <= 1
    /\ Count(calls, "setTimeout") <= 1
    /\ Precedes("setTimeout", "parseTransaction")
    /\ Precedes("signSendWait", "setTimeout")
    /\ (pc = "parseTransaction" \/ Called("parseTransaction")) => elapsed >= DelayMs
    /\ ParseReturned => Exited
    /\ wormholeMessageId # 0 => wormholeMessageId = messageIds.list[1]

SingleDelayedAttemptWitness ==
    /\ Called("parseTransaction")
    /\ elapsed >= DelayMs
    /\ Len(messageIds.list) = 2
    /\ messageIds.list[1] # messageIds.list[2]
    /\ wormholeMessageId = messageIds.list[1]

\* C10: when every pending call returns or throws and the timer fires, the run
\* ends; no external operation is called twice; no step follows a logged error.
RunTerminates ==
    /\ <>Exited
    /\ [](\A c \in Range(calls) : Count(calls, c) = 1)
    /\ [][errLog = "none" /\ error = "none"]_vars

RunTerminatesWitness ==
    /\ Exited
    /\ Len(calls) = 12
    /\ wormholeMessageId # 0

====
